---- MODULE Spec2Model ----
(***************************************************************************)
(* kopeio/aws-controller: the instances controller.                        *)
(*                                                                         *)
(* The repository holds two InstancesController types.  The "kope" one     *)
(* (package instances over kopeaws.AWSCloud and kope.DNSProvider) checks   *)
(* the instance state before it touches source-dest-check and maintains    *)
(* DNS records; the "legacy" one (package awscontroller/instances, the one *)
(* cmd/aws-controller/main.go builds) talks to EC2 directly, has no state  *)
(* switch and no DNS.  Both share the Run / runLoop / Stop lifecycle.      *)
(*                                                                         *)
(* Strings are modelled as naturals: 0 is the empty string (what           *)
(* aws.StringValue gives for a nil pointer), and the order of the naturals *)
(* stands for the lexicographic order sort.Strings uses.  A *bool is a set *)
(* with at most one element, {} being nil.  A Go map is a function whose   *)
(* DOMAIN is the key set; <<>> is the empty map.                           *)
(***************************************************************************)
EXTENDS Integers, Sequences, FiniteSets, TLC

\* ---------------------------------------------------------------- bounds
MaxId == 2
MaxSeq == 2
MaxName == 2
NStop == 2

Ids == 1..MaxId
Names == 1..MaxName
Callers == 1..NStop

\* The empty string, as aws.StringValue returns it for a nil *string.
EmptyString == 0

TagNameKubernetesDnsPublic == "k8s.io/dns/public"
TagNameKubernetesDnsInternal == "k8s.io/dns/internal"

\* The address an instance has while it is attached: distinct per instance.
PrivateIp(id) == id
PublicIp(id) == MaxId + id

\* Every instance state name EC2 documents, and one the switch does not know.
InstanceStates ==
    {"pending", "running", "shutting-down", "terminated", "stopping", "stopped",
     "rebooting"}

VARIABLES
    variant,          \* "kope" | "legacy": which InstancesController is built
    SourceDestCheck,  \* c.SourceDestCheck (*bool)
    dns,              \* c.dns != nil
    instances,        \* c.instances: id -> [ID, sequence, status]
    sequence,         \* c.sequence
    dnsState,         \* c.dnsState: name -> sorted address list
    dnsStateNil,      \* c.dnsState == nil
    stopLock,         \* holder of c.stopLock, 0 when free
    shutdown,         \* c.shutdown
    stopCh,           \* c.stopCh: "nil" | "open" | "closed"
    runPc,            \* Run: "init" | "blocked" | "returned"
    tickPc,           \* the wait.Until goroutine: "off" | "wait" | "runOnce" | "loop" | "stopped"
    todo,             \* entries the range over c.instances has not reached yet
    stopPc,           \* each Stop call: "idle" | "locked" | "nil" | "err" | "panic"
    cloudSDC,         \* EC2's source-dest-check attribute of each instance
    \* what the current (or last) runOnce did
    fetched,          \* the list DescribeInstances returned
    fetchErr,         \* DescribeInstances returned an error
    tickResult,       \* what runOnce returned: "none" | "nil" | "err"
    handled,          \* errors passed to runtime.HandleError by runOnce
    evicted,          \* entries runOnce deleted from c.instances
    mutCalls,         \* instances ConfigureInstanceSourceDestCheck was called for
    converged,        \* a call succeeded for the instance and EC2's value has not changed since
    dnsRun,           \* what configureDNS did
    tickStartDns,     \* c.dnsState when the tick began
    prevTick,         \* how the runOnce before this one ended: "none" | "nil" | "fetch" | "apply"
    prevFailed,       \* the instances whose call failed in the runOnce before this one
    zone              \* the records the hosted zone holds: name -> address list

vars ==
    <<variant, SourceDestCheck, dns, instances, sequence, dnsState, dnsStateNil,
      stopLock, shutdown, stopCh, runPc, tickPc, todo, stopPc, cloudSDC,
      fetched, fetchErr, tickResult, handled, evicted, mutCalls, converged,
      dnsRun, tickStartDns, prevTick, prevFailed, zone>>

config == <<variant, SourceDestCheck, dns>>
lifecycle == <<stopLock, shutdown, stopCh, stopPc>>
dnsVars == <<dnsState, dnsStateNil, zone>>
tickLog ==
    <<fetched, fetchErr, tickResult, handled, evicted, mutCalls, dnsRun,
      tickStartDns, prevTick, prevFailed>>

\* ------------------------------------------------------------- helpers
Range(s) == {s[i] : i \in DOMAIN s}

\* aws.BoolValue: false for nil.
BoolValue(p) == TRUE \in p

\* Delete that leaves the key in the map.
DeleteKeeps(m, k) == m

\* m with k removed (delete(m, k)).
Delete(m, k) == [x \in DOMAIN m \ {k} |-> m[x]]

\* m[k] = v.
Put(m, k, v) == [x \in DOMAIN m \cup {k} |-> IF x = k THEN v ELSE m[x]]

\* m[k], the zero value (a nil slice) when k is no key.
Lookup(m, k) == IF k \in DOMAIN m THEN m[k] ELSE <<>>

\* Every order a range over a map with key set S may take.
Orders(S) == {o \in [1..Cardinality(S) -> S] : Range(o) = S}

NoRun == [ran |-> FALSE, desired |-> <<>>, before |-> <<>>, changes |-> <<>>,
          applied |-> "none"]

\* ------------------------------------------------- the inventory source
\* What an ec2.Instance says besides its id and its source-dest-check value.
Shape(state, intTag, pubTag, addr) ==
    [State |-> state, intTag |-> intTag, pubTag |-> pubTag, addr |-> addr]

\* The tag list of an instance: a tag is listed when it has a value.
TagsOf(intTag, pubTag) ==
    [k \in {x \in {TagNameKubernetesDnsInternal} : intTag # EmptyString}
           \cup {x \in {TagNameKubernetesDnsPublic} : pubTag # EmptyString}
        |-> IF k = TagNameKubernetesDnsInternal THEN intTag ELSE pubTag]

\* The *ec2.Instance EC2 reports for instance id.
Status(id, shape, sdc) ==
    [InstanceId |-> id,
     State |-> shape.State,
     SourceDestCheck |-> {sdc},
     Tags |-> TagsOf(shape.intTag, shape.pubTag),
     PrivateIpAddress |->
        IF shape.addr \in {"private", "both"} THEN PrivateIp(id) ELSE EmptyString,
     PublicIpAddress |->
        IF shape.addr = "both" THEN PublicIp(id) ELSE EmptyString]

\* Instances in every state, each tagged for the internal name 1.
PolicyShapes == {Shape(s, 1, EmptyString, "private") : s \in InstanceStates}

\* Every combination of the two DNS tags on a running instance, which has a
\* private address and may have a public one, and a terminated instance that
\* still carries its tags and has no address left, and a stopped instance
\* that has kept its tags and its addresses.
DnsShapes ==
    {Shape("running", a, b, c) :
        a \in {EmptyString} \cup Names, b \in {EmptyString} \cup Names,
        c \in {"private", "both"}}
    \cup {Shape("terminated", 1, 1, "none"), Shape("stopped", 1, 1, "both")}

\* Running instances, tagged for the internal name 1.
LifecycleShapes == {Shape("running", 1, EmptyString, "private")}

\* Running or pending instances, tagged for the internal name 1.
BaseShapes == {Shape(s, 1, EmptyString, "private") : s \in {"running", "pending"}}

\* A record without an instance id.
Malformed == Status(EmptyString, Shape("running", 1, 1, "both"), TRUE)

RECURSIVE ListOf(_, _)
ListOf(S, f) ==
    IF S = {} THEN <<>>
    ELSE LET m == CHOOSE x \in S : \A y \in S : x <= y
         IN  <<Status(m, f[m], cloudSDC[m])>> \o ListOf(S \ {m}, f)

\* The lists DescribeInstances may return when instances take shapes from U;
\* bads says whether a record without an id may lead the list.
Inventories(U, bads) ==
    UNION {{(IF bad THEN <<Malformed>> ELSE <<>>) \o ListOf(present, f) :
                f \in [present -> U], bad \in bads} :
           present \in SUBSET Ids}

\* --------------------------------------------------- runOnce, the parts
\* FindTag: the value of the tag, "" when the instance has no such tag.
FindTag(instance, name) ==
    IF name \in DOMAIN instance.Tags THEN instance.Tags[name] ELSE EmptyString

\* SkipRecord with the check dropped: the record is stored under the key "".
SkipRecordNever(id) == FALSE

\* `if id == ""`: the record is skipped.
SkipRecord(id) == id = EmptyString

\* The loop over the fetched list: create or update, stamp with the sequence.
RECURSIVE Upsert(_, _, _)
Upsert(reg, inv, seq) ==
    IF inv = <<>> THEN reg
    ELSE LET awsInstance == Head(inv)
             id == awsInstance.InstanceId
         IN  IF SkipRecord(id) THEN Upsert(reg, Tail(inv), seq)
             ELSE Upsert(Put(reg, id, [ID |-> id, sequence |-> seq,
                                       status |-> awsInstance]),
                         Tail(inv), seq)

\* The errors the upsert loop hands to runtime.HandleError.
UpsertErrors(inv) ==
    {<<"malformed", r.InstanceId>> : r \in {x \in Range(inv) : SkipRecord(x.InstanceId)}}

\* FetchAborts with the check dropped: runOnce goes on with an empty list.
FetchNeverAborts(ok) == FALSE

\* `if err != nil { return err }` after DescribeInstances.
FetchAborts(ok) == ~ok

\* Stale with one tick of grace: an entry is kept until it was missed twice.
StaleAfterGrace(i, seq) == i.sequence < seq - 1

\* Stale that never finds an entry stale.
StaleNever(i, seq) == FALSE

\* `if i.sequence != sequence`: the entry was not seen in this fetch.
Stale(i, seq) == i.sequence # seq

\* The switch on the instance state name: canSetSourceDestCheck, and whether
\* the default branch reported the state.
StateSwitch(instanceStateName) ==
    CASE instanceStateName = "pending" -> [can |-> FALSE, unknown |-> FALSE]
      [] instanceStateName = "running" -> [can |-> TRUE, unknown |-> FALSE]
      [] instanceStateName = "shutting-down" -> [can |-> FALSE, unknown |-> FALSE]
      [] instanceStateName = "terminated" -> [can |-> FALSE, unknown |-> FALSE]
      [] instanceStateName = "stopping" -> [can |-> TRUE, unknown |-> FALSE]
      [] instanceStateName = "stopped" -> [can |-> TRUE, unknown |-> FALSE]
      [] OTHER -> [can |-> FALSE, unknown |-> TRUE]

\* ShouldConfigure without the comparison with the observed value.
ShouldConfigureAlways(status, desired) ==
    /\ StateSwitch(status.State).can
    /\ desired # {}

\* The condition under which ConfigureInstanceSourceDestCheck is called.
ShouldConfigure(status, desired) ==
    /\ StateSwitch(status.State).can
    /\ desired # {}
    /\ BoolValue(desired) # BoolValue(status.SourceDestCheck)

\* ObservedAfterConfigure without the update in place.
ObservedAfterConfigureNever(failed, observed, desired) == observed

\* i.status.SourceDestCheck after ConfigureInstanceSourceDestCheck returned:
\* c.SourceDestCheck when the call succeeded, what it was when it failed.
ObservedAfterConfigure(failed, observed, desired) ==
    IF failed THEN observed ELSE desired

\* The same condition in the legacy controller: no state switch.
LegacyShouldConfigure(status, desired) ==
    /\ desired # {}
    /\ BoolValue(desired) # BoolValue(status.SourceDestCheck)

\* ------------------------------------------------------- configureDNS
\* AppendTo that assigns instead of appending: the last address wins.
AppendToOverwrites(m, k, v) == Put(m, k, <<v>>)

\* dnsState[k] = append(dnsState[k], v)
AppendTo(m, k, v) == Put(m, k, Append(Lookup(m, k), v))

\* The loop that derives the DNS names from the tags, visiting in `order`.
RECURSIVE Gather(_, _, _)
Gather(reg, order, acc) ==
    IF order = <<>> THEN acc
    ELSE LET status == reg[Head(order)].status
             internalName == FindTag(status, TagNameKubernetesDnsInternal)
             internalIP == status.PrivateIpAddress
             a1 == IF internalName # EmptyString /\ internalIP # EmptyString
                   THEN AppendTo(acc, internalName, internalIP) ELSE acc
             publicName == FindTag(status, TagNameKubernetesDnsPublic)
             publicIP == status.PublicIpAddress
             a2 == IF publicName # EmptyString /\ publicIP # EmptyString
                   THEN AppendTo(a1, publicName, publicIP) ELSE a1
         IN  Gather(reg, Tail(order), a2)

\* v inserted into the sorted sequence s.
RECURSIVE Insert(_, _)
Insert(s, v) ==
    IF s = <<>> THEN <<v>>
    ELSE IF v <= Head(s) THEN <<v>> \o s
    ELSE <<Head(s)>> \o Insert(Tail(s), v)

\* SortStrings that leaves the slice as it was gathered.
SortStringsNot(v) == v

\* sort.Strings
RECURSIVE SortStrings(_)
SortStrings(v) ==
    IF v = <<>> THEN <<>> ELSE Insert(SortStrings(Tail(v)), Head(v))

StringSlicesEqual(l, r) ==
    IF Len(l) # Len(r) THEN FALSE
    ELSE \A i \in 1..Len(l) : r[i] = l[i]

\* DnsChanges that sends, with the changed names, the names of the last
\* state that are gone, each with no address.
DnsChangesWithRetractions(sorted, last) ==
    [k \in {x \in DOMAIN sorted : ~StringSlicesEqual(Lookup(last, x), sorted[x])}
           \cup (DOMAIN last \ DOMAIN sorted)
        |-> IF k \in DOMAIN sorted THEN sorted[k] ELSE <<>>]

\* DnsChanges that leaves the loop at the first changed name.
DnsChangesFirstOnly(sorted, last) ==
    LET changed == {x \in DOMAIN sorted : ~StringSlicesEqual(Lookup(last, x), sorted[x])}
    IN  [k \in {x \in changed : \A y \in changed : x <= y} |-> sorted[k]]

\* DnsChanges that sends the whole new state.
DnsChangesAll(sorted, last) == sorted

\* The loop over the new state: every value is sorted in place, and the names
\* whose value differs from the last applied one are the changes.
DnsChanges(sorted, last) ==
    [k \in {x \in DOMAIN sorted : ~StringSlicesEqual(Lookup(last, x), sorted[x])}
        |-> sorted[k]]

\* AfterApply that never records the new state.
AfterApplyKeepsLast(applyOk, newState, last) == last

\* AfterApply that records the new state whatever ApplyDNSChanges answered.
AfterApplyAlways(applyOk, newState, last) == newState

\* AfterApply that adds the new state to the last one, name by name.
AfterApplyMerges(applyOk, newState, last) ==
    IF applyOk
    THEN [k \in DOMAIN newState \cup DOMAIN last |->
             IF k \in DOMAIN newState THEN newState[k] ELSE last[k]]
    ELSE last

\* What c.dnsState is after ApplyDNSChanges returned.
AfterApply(applyOk, newState, last) == IF applyOk THEN newState ELSE last

\* Route53DNSProvider.set, when ChangeResourceRecordSets accepts the batch:
\* one UPSERT per name of records, all of them or none.
Route53Set(records, changes) ==
    [k \in DOMAIN records \cup DOMAIN changes |->
        IF k \in DOMAIN changes THEN changes[k] ELSE records[k]]

\* configureDNS as a function of the registry, the order the range visits it
\* in, the last state and what ApplyDNSChanges answers.
ConfigureDNS(reg, order, last, lastNil, applyOk) ==
    LET gathered == Gather(reg, order, <<>>)
    IN  IF lastNil
        THEN IF DOMAIN gathered = {}
             THEN [ret |-> "nil", state |-> gathered, stateNil |-> FALSE,
                   desired |-> gathered, changes |-> <<>>, applied |-> "none"]
             ELSE [ret |-> IF applyOk THEN "nil" ELSE "err",
                   state |-> AfterApply(applyOk, gathered, last),
                   stateNil |-> ~applyOk,
                   desired |-> gathered, changes |-> gathered,
                   applied |-> IF applyOk THEN "ok" ELSE "fail"]
        ELSE LET sorted == [k \in DOMAIN gathered |-> SortStrings(gathered[k])]
                 changes == DnsChanges(sorted, last)
             IN  IF DOMAIN changes = {}
                 THEN [ret |-> "nil", state |-> last, stateNil |-> FALSE,
                       desired |-> gathered, changes |-> changes,
                       applied |-> "none"]
                 ELSE [ret |-> IF applyOk THEN "nil" ELSE "err",
                       state |-> AfterApply(applyOk, sorted, last),
                       stateNil |-> FALSE,
                       desired |-> gathered, changes |-> changes,
                       applied |-> IF applyOk THEN "ok" ELSE "fail"]

\* ------------------------------------------------------------- Init
\* NewInstancesController, then the caller's c.SourceDestCheck = ...: the maps
\* are made, the sequence is 0, and stopCh is left at its zero value, nil.
InitOf(variants, desireds, withDns, clouds) ==
    /\ variant \in variants
    /\ SourceDestCheck \in desireds
    /\ dns = (variant = "kope" /\ withDns)
    /\ instances = <<>>
    /\ sequence = 0
    /\ dnsState = <<>>
    /\ dnsStateNil = FALSE
    /\ stopLock = 0
    /\ shutdown = FALSE
    /\ stopCh = "nil"
    /\ runPc = "init"
    /\ tickPc = "off"
    /\ todo = {}
    /\ stopPc = [p \in Callers |-> "idle"]
    /\ cloudSDC \in clouds
    /\ fetched = <<>>
    /\ fetchErr = FALSE
    /\ tickResult = "none"
    /\ handled = {}
    /\ evicted = {}
    /\ mutCalls = {}
    /\ converged = [id \in Ids |-> FALSE]
    /\ dnsRun = NoRun
    /\ tickStartDns = <<>>
    /\ prevTick = "none"
    /\ prevFailed = {}
    /\ zone = <<>>

\* ------------------------------------------------------- the lifecycle
\* `<-ch` and `case <-ch:` go through once ch is closed; on a nil channel, as
\* on an open one nobody sends on, they wait for ever.
Receivable(ch) == ch = "closed"

\* runLoop's function with an error that ends the ticking.
AfterRunOnceErrorStops(err) == IF err THEN "stopped" ELSE "wait"

\* runLoop's function after runOnce returned: an error goes to
\* runtime.HandleError, and wait.Until waits for the next period either way.
AfterRunOnce(err) == "wait"

\* Run: start runLoop, then block on <-c.stopCh.
Run ==
    /\ runPc = "init"
    /\ runPc' = IF Receivable(stopCh) THEN "returned" ELSE "blocked"
    /\ tickPc' = "wait"
    /\ UNCHANGED <<config, instances, sequence, dnsVars, lifecycle, todo, cloudSDC,
                   converged, tickLog>>

\* Stop, up to c.stopLock.Lock().
StopLock(p) ==
    /\ stopPc[p] = "idle"
    /\ stopLock = 0
    /\ stopLock' = p
    /\ stopPc' = [stopPc EXCEPT ![p] = "locked"]
    /\ UNCHANGED <<config, instances, sequence, dnsVars, shutdown, stopCh, runPc,
                   tickPc, todo, cloudSDC, converged, tickLog>>

\* close(ch): a nil or an already closed channel panics.
ClosePanics(ch) == ch # "open"

\* Stop, holding the lock: the body and the deferred Unlock.
StopBody(p) ==
    /\ stopPc[p] = "locked"
    /\ stopLock = p
    /\ stopLock' = 0
    /\ IF ~shutdown
       THEN IF ClosePanics(stopCh)
            THEN /\ stopPc' = [stopPc EXCEPT ![p] = "panic"]
                 /\ UNCHANGED <<stopCh, shutdown>>
                 /\ UNCHANGED runPc
            ELSE /\ stopCh' = "closed"
                 /\ shutdown' = TRUE
                 /\ stopPc' = [stopPc EXCEPT ![p] = "nil"]
                 /\ runPc' = IF runPc = "blocked" THEN "returned" ELSE runPc
       ELSE /\ stopPc' = [stopPc EXCEPT ![p] = "err"]
            /\ UNCHANGED <<stopCh, shutdown, runPc>>
    /\ UNCHANGED <<config, instances, sequence, dnsVars, tickPc, todo,
                   cloudSDC, converged, tickLog>>

\* One turn of wait.Until: return when stopCh is closed, else call runOnce.
Tick ==
    /\ tickPc = "wait"
    /\ sequence < MaxSeq
    /\ IF Receivable(stopCh)
       THEN /\ tickPc' = "stopped"
            /\ UNCHANGED tickLog
       ELSE /\ tickPc' = "runOnce"
            /\ fetched' = <<>>
            /\ fetchErr' = FALSE
            /\ tickResult' = "none"
            /\ handled' = {}
            /\ evicted' = {}
            /\ mutCalls' = {}
            /\ dnsRun' = NoRun
            /\ tickStartDns' = dnsState
            /\ prevTick' = IF fetchErr THEN "fetch"
                           ELSE IF dnsRun.applied = "fail" THEN "apply"
                           ELSE tickResult
            /\ prevFailed' = {id \in Ids : <<"policy", id>> \in handled}
    /\ UNCHANGED <<config, instances, sequence, dnsVars, lifecycle, runPc, todo,
                   cloudSDC, converged>>

\* ------------------------------------------------------------ runOnce
\* DescribeInstances, the sequence, the loop over the fetched list.
DescribeAndUpsert(U, bads) ==
    /\ tickPc = "runOnce"
    /\ variant = "kope"
    /\ \E inv \in Inventories(U, bads), ok \in BOOLEAN :
          LET list == IF ok THEN inv ELSE <<>>
          IN  IF FetchAborts(ok)
              THEN /\ fetchErr' = TRUE
                   /\ tickResult' = "err"
                   /\ tickPc' = AfterRunOnce(TRUE)
                   /\ UNCHANGED <<instances, sequence, todo, fetched, handled>>
              ELSE /\ fetchErr' = ~ok
                   /\ sequence' = sequence + 1
                   /\ instances' = Upsert(instances, list, sequence')
                   /\ handled' = handled \cup UpsertErrors(list)
                   /\ fetched' = list
                   /\ todo' = DOMAIN instances'
                   /\ tickPc' = "loop"
                   /\ UNCHANGED tickResult
    /\ UNCHANGED <<config, dnsVars, lifecycle, runPc, cloudSDC, converged, evicted,
                   mutCalls, dnsRun, tickStartDns, prevTick, prevFailed>>

\* The legacy runOnce: the sequence first, then DescribeInstancesPages, whose
\* callback upserts what each page holds; the error, if any, comes after the
\* pages that were delivered.
LegacyDescribeAndUpsert(U, bads) ==
    /\ tickPc = "runOnce"
    /\ variant = "legacy"
    /\ \E inv \in Inventories(U, bads), ok \in BOOLEAN, n \in 0..MaxId + 1 :
          /\ n <= Len(inv)
          /\ ok => n = Len(inv)
          /\ LET list == SubSeq(inv, 1, n)
             IN  /\ sequence' = sequence + 1
                 /\ instances' = Upsert(instances, list, sequence')
                 /\ handled' = handled \cup UpsertErrors(list)
                 /\ fetched' = list
                 /\ fetchErr' = ~ok
                 /\ IF FetchAborts(ok)
                    THEN /\ tickResult' = "err"
                         /\ tickPc' = AfterRunOnce(TRUE)
                         /\ UNCHANGED todo
                    ELSE /\ todo' = DOMAIN instances'
                         /\ tickPc' = "loop"
                         /\ UNCHANGED tickResult
    /\ UNCHANGED <<config, dnsVars, lifecycle, runPc, cloudSDC, converged, evicted,
                   mutCalls, dnsRun, tickStartDns, prevTick, prevFailed>>

\* AfterPolicyError that leaves the range at the first failure.
AfterPolicyErrorStops(rest) == {}

\* The todo set after ConfigureInstanceSourceDestCheck failed: the error goes
\* to runtime.HandleError and the range goes on with the rest.
AfterPolicyError(rest) == rest

\* The default branch of the switch reports the state of instance id.
UnknownStateErrors(id, unknown) == IF unknown THEN {<<"unknown-state", id>>} ELSE {}

\* One iteration of the range over c.instances, given whether the call is due
\* and whether the switch took its default branch.
Visit(id, should, unknown) ==
    IF Stale(instances[id], sequence)
    THEN /\ instances' = Delete(instances, id)
         /\ evicted' = evicted \cup {id}
         /\ todo' = todo \ {id}
         /\ UNCHANGED <<cloudSDC, handled, mutCalls, converged>>
    ELSE IF should
    THEN \E ok \in BOOLEAN :
           /\ mutCalls' = mutCalls \cup {id}
           /\ IF ok
              THEN /\ cloudSDC' = [cloudSDC EXCEPT ![id] = BoolValue(SourceDestCheck)]
                   /\ instances' =
                        [instances EXCEPT ![id].status.SourceDestCheck =
                            ObservedAfterConfigure(FALSE, @, SourceDestCheck)]
                   /\ converged' = [converged EXCEPT ![id] = TRUE]
                   /\ handled' = handled \cup UnknownStateErrors(id, unknown)
                   /\ todo' = todo \ {id}
              ELSE /\ handled' = handled \cup UnknownStateErrors(id, unknown)
                                    \cup {<<"policy", id>>}
                   /\ todo' = AfterPolicyError(todo \ {id})
                   /\ instances' =
                        [instances EXCEPT ![id].status.SourceDestCheck =
                            ObservedAfterConfigure(TRUE, @, SourceDestCheck)]
                   /\ UNCHANGED <<cloudSDC, converged>>
           /\ UNCHANGED evicted
    ELSE /\ handled' = handled \cup UnknownStateErrors(id, unknown)
         /\ todo' = todo \ {id}
         /\ UNCHANGED <<cloudSDC, instances, evicted, mutCalls, converged>>

\* runOnce's range over c.instances: evict, or switch on the state and set
\* source-dest-check.
VisitInstance ==
    /\ tickPc = "loop"
    /\ variant = "kope"
    /\ \E id \in todo :
          LET status == instances[id].status
          IN  Visit(id, ShouldConfigure(status, SourceDestCheck),
                    StateSwitch(status.State).unknown)
    /\ UNCHANGED <<config, sequence, dnsVars, lifecycle, runPc, tickPc, fetched,
                   fetchErr, tickResult, dnsRun, tickStartDns, prevTick, prevFailed>>

\* The legacy range over c.instances.
LegacyVisitInstance ==
    /\ tickPc = "loop"
    /\ variant = "legacy"
    /\ \E id \in todo :
          Visit(id, LegacyShouldConfigure(instances[id].status, SourceDestCheck), FALSE)
    /\ UNCHANGED <<config, sequence, dnsVars, lifecycle, runPc, tickPc, fetched,
                   fetchErr, tickResult, dnsRun, tickStartDns, prevTick, prevFailed>>

\* The end of runOnce: configureDNS when a DNS provider is set.
Finish ==
    /\ tickPc = "loop"
    /\ variant = "kope"
    /\ todo = {}
    /\ IF dns
       THEN \E order \in Orders(DOMAIN instances), applyOk \in BOOLEAN :
               LET r == ConfigureDNS(instances, order, dnsState, dnsStateNil, applyOk)
               IN  /\ tickPc' = AfterRunOnce(r.ret = "err")
                   /\ dnsState' = r.state
                   /\ dnsStateNil' = r.stateNil
                   /\ zone' = IF r.applied = "ok"
                              THEN Route53Set(zone, r.changes) ELSE zone
                   /\ tickResult' = r.ret
                   /\ dnsRun' = [ran |-> TRUE, desired |-> r.desired,
                                 before |-> dnsState, changes |-> r.changes,
                                 applied |-> r.applied]
       ELSE /\ tickResult' = "nil"
            /\ tickPc' = AfterRunOnce(FALSE)
            /\ UNCHANGED <<dnsVars, dnsRun>>
    /\ UNCHANGED <<config, instances, sequence, lifecycle, runPc, todo, cloudSDC,
                   converged, fetched, fetchErr, handled, evicted, mutCalls,
                   tickStartDns, prevTick, prevFailed>>

\* The end of the legacy runOnce.
LegacyFinish ==
    /\ tickPc = "loop"
    /\ variant = "legacy"
    /\ todo = {}
    /\ tickPc' = AfterRunOnce(FALSE)
    /\ tickResult' = "nil"
    /\ UNCHANGED <<config, instances, sequence, dnsVars, lifecycle, runPc, todo,
                   cloudSDC, converged, fetched, fetchErr, handled, evicted,
                   mutCalls, dnsRun, tickStartDns, prevTick, prevFailed>>

\* --------------------------------------------------------- environment
\* Between two ticks somebody else changes the source-dest-check attribute of
\* an instance.
UpstreamChange ==
    /\ tickPc = "wait"
    /\ \E id \in Ids :
          /\ cloudSDC' = [cloudSDC EXCEPT ![id] = ~@]
          /\ converged' = [converged EXCEPT ![id] = FALSE]
    /\ UNCHANGED <<config, instances, sequence, dnsVars, lifecycle, runPc, tickPc,
                   todo, tickLog>>

\* ------------------------------------------------------ specifications
\* EC2's default for a new instance.
DefaultCloud == [id \in Ids |-> TRUE]

\* The whole program: both controllers with the desired value main.go sets,
\* the Stop callers, running instances.
Init == InitOf({"kope", "legacy"}, {{FALSE}}, TRUE, {DefaultCloud})

Next ==
    \/ Run
    \/ \E p \in Callers : StopLock(p)
    \/ \E p \in Callers : StopBody(p)
    \/ Tick
    \/ DescribeAndUpsert(LifecycleShapes, {FALSE})
    \/ LegacyDescribeAndUpsert(LifecycleShapes, {FALSE})
    \/ VisitInstance
    \/ LegacyVisitInstance
    \/ Finish
    \/ LegacyFinish

Spec == Init /\ [][Next]_vars

\* The whole program with its scheduling: main calls Run, the wait.Until
\* goroutine keeps running, and a Stop call that holds the lock goes on.  When
\* Stop is called is up to the environment.
LiveSpec ==
    /\ Spec
    /\ WF_vars(Run)
    /\ WF_vars(Tick)
    /\ WF_vars(DescribeAndUpsert(LifecycleShapes, {FALSE}))
    /\ WF_vars(LegacyDescribeAndUpsert(LifecycleShapes, {FALSE}))
    /\ WF_vars(VisitInstance)
    /\ WF_vars(LegacyVisitInstance)
    /\ WF_vars(Finish)
    /\ WF_vars(LegacyFinish)
    /\ \A p \in Callers : WF_vars(StopBody(p))

\* The registry and the convergence of the policy: running and pending
\* instances, records without an id, EC2's attribute changing under the
\* controller.
InitInventory == InitOf({"kope", "legacy"}, {{FALSE}}, TRUE, {DefaultCloud})

NextInventory ==
    \/ Run
    \/ Tick
    \/ DescribeAndUpsert(BaseShapes, BOOLEAN)
    \/ LegacyDescribeAndUpsert(BaseShapes, BOOLEAN)
    \/ VisitInstance
    \/ LegacyVisitInstance
    \/ Finish
    \/ LegacyFinish
    \/ UpstreamChange

SpecInventory == InitInventory /\ [][NextInventory]_vars

\* The source-dest-check policy: instances in every state, every desired
\* value, no DNS provider.
InitPolicy == InitOf({"kope", "legacy"}, {{}, {FALSE}, {TRUE}}, FALSE, [Ids -> BOOLEAN])

NextPolicy ==
    \/ Run
    \/ Tick
    \/ DescribeAndUpsert(PolicyShapes, {FALSE})
    \/ LegacyDescribeAndUpsert(PolicyShapes, {FALSE})
    \/ VisitInstance
    \/ LegacyVisitInstance
    \/ Finish
    \/ LegacyFinish

SpecPolicy == InitPolicy /\ [][NextPolicy]_vars

\* The DNS records: the kope controller, no source-dest-check policy, every
\* combination of tags and addresses.
InitDns == InitOf({"kope"}, {{}}, TRUE, {DefaultCloud})

NextDns ==
    \/ Run
    \/ Tick
    \/ DescribeAndUpsert(DnsShapes, {FALSE})
    \/ VisitInstance
    \/ Finish

SpecDns == InitDns /\ [][NextDns]_vars

\* -------------------------------------------------------------- claims
\* runOnce has returned.
TickDone == tickPc = "wait" /\ tickResult # "none"

\* The ids of the fetched records that have one.
FetchedIds == {r.InstanceId : r \in Range(fetched)} \ {EmptyString}

\* The record the fetch returned for id.
FetchedOf(id) == CHOOSE r \in Range(fetched) : r.InstanceId = id

\* The states in which the attribute may be set, as the specification lists them.
EligibleStates == {"running", "stopping", "stopped"}

\* The instances whose ConfigureInstanceSourceDestCheck call failed in this tick.
PolicyFailed == {id \in Ids : <<"policy", id>> \in handled}

\* configureDNS run once more on the registry as it is, in every order the
\* range may take and whatever the provider would answer.
SecondRuns ==
    {ConfigureDNS(instances, order, dnsState, dnsStateNil, applyOk) :
        order \in Orders(DOMAIN instances), applyOk \in BOOLEAN}

\* l and r hold the same addresses, each as often, in any order.
SameAddresses(l, r) ==
    /\ Len(l) = Len(r)
    /\ \A x \in Range(l) \cup Range(r) :
          Cardinality({i \in DOMAIN l : l[i] = x}) = Cardinality({i \in DOMAIN r : r[i] = x})

\* C1: once Run has started and every concurrent Stop call has returned,
\* exactly one call returned nil, the others returned the "shutdown already in
\* progress" error, stopCh is closed, and no call ever panics.
C1_StopExactlyOnce ==
    /\ \A p \in Callers : stopPc[p] # "panic"
    /\ (runPc = "blocked" /\ \A p \in Callers : stopPc[p] \notin {"idle", "locked"})
          => /\ Cardinality({p \in Callers : stopPc[p] = "nil"}) = 1
             /\ \A p \in Callers : stopPc[p] \in {"nil", "err"}
             /\ stopCh = "closed"

\* C2: after a tick whose fetch succeeded, the ids in the registry are exactly
\* the non-empty ids the fetch returned.
C2_RegistryIsFetch ==
    (TickDone /\ ~fetchErr) => DOMAIN instances = FetchedIds

\* C2 witness: a second tick ended after evicting an instance that the fetch no
\* longer returned, and kept another one.
C2_Witness ==
    /\ TickDone /\ ~fetchErr
    /\ evicted # {}
    /\ DOMAIN instances # {}

\* C3: once a call has succeeded for an instance and EC2's value has not been
\* changed since, no step issues another call for that instance.
C3_NoCallOnceConverged ==
    [][\A id \in Ids : converged[id] => (id \in mutCalls' => id \in mutCalls)]_vars

\* C3 witness: a later tick has visited a running instance whose value an
\* earlier tick had set, and issued no call for it.
C3_Witness ==
    /\ TickDone /\ ~fetchErr
    /\ \E id \in DOMAIN instances :
          /\ converged[id]
          /\ id \notin mutCalls
          /\ instances[id].status.State \in EligibleStates
          /\ instances[id].sequence = sequence

\* C4: a call is issued only for an instance whose state is running, stopping
\* or stopped, and an instance in a state the switch does not know is reported
\* to runtime.HandleError while the tick goes on.
C4_OnlyEligibleStates ==
    /\ \A id \in mutCalls :
          id \in DOMAIN instances => instances[id].status.State \in EligibleStates
    /\ (TickDone /\ ~fetchErr) =>
          \A id \in DOMAIN instances :
             instances[id].status.State \notin
                   EligibleStates \cup {"pending", "shutting-down", "terminated"}
                => <<"unknown-state", id>> \in handled

\* C5: after a tick whose configureDNS returned nil, configureDNS run again on
\* the same registry finds no change and does not call the provider.
C5_SecondDiffEmpty ==
    (TickDone /\ dnsRun.ran /\ tickResult = "nil") =>
        \A r \in SecondRuns : DOMAIN r.changes = {} /\ r.applied = "none"

\* C5 witness: the provider accepted a name with two addresses that had been
\* gathered in descending order.
C5_Witness ==
    /\ TickDone /\ dnsRun.applied = "ok"
    /\ \E k \in DOMAIN dnsRun.desired :
          Len(dnsRun.desired[k]) = 2 /\ dnsRun.desired[k][1] > dnsRun.desired[k][2]

\* C6: a name whose gathered addresses are those of the last applied state, in
\* whatever order they were gathered, is not among the changes.
C6_OrderInsensitive ==
    dnsRun.ran =>
        \A k \in DOMAIN dnsRun.desired :
            SameAddresses(dnsRun.desired[k], Lookup(dnsRun.before, k))
               => k \notin DOMAIN dnsRun.changes

\* C6 witness: a name was gathered in another order than the last applied
\* state holds it in, and was left out of the changes.
C6_Witness ==
    /\ dnsRun.ran
    /\ \E k \in DOMAIN dnsRun.desired :
          /\ dnsRun.desired[k] # Lookup(dnsRun.before, k)
          /\ SameAddresses(dnsRun.desired[k], Lookup(dnsRun.before, k))
          /\ k \notin DOMAIN dnsRun.changes

\* C7: the registry never has an entry under the empty id, and a tick whose
\* fetch held a record without an id still stores every other record, reports
\* the record, evicts, applies the policy and runs configureDNS.
C7_MalformedSkipped ==
    /\ EmptyString \notin DOMAIN instances
    /\ (tickPc = "loop" /\ Malformed \in Range(fetched)) =>
          /\ \A id \in FetchedIds :
                id \in DOMAIN instances /\ instances[id].sequence = sequence
          /\ <<"malformed", EmptyString>> \in handled
    /\ (TickDone /\ ~fetchErr /\ Malformed \in Range(fetched)) =>
          /\ DOMAIN instances = FetchedIds
          /\ \A id \in DOMAIN instances :
                (/\ FetchedOf(id).State \in EligibleStates
                 /\ BoolValue(FetchedOf(id).SourceDestCheck) # BoolValue(SourceDestCheck))
                   => id \in mutCalls
          /\ dns => dnsRun.ran

\* C7 witness: a tick whose fetch led with a record without an id ended with
\* both other records stored, one instance set and the DNS state applied.
C7_Witness ==
    /\ TickDone /\ ~fetchErr
    /\ Malformed \in Range(fetched)
    /\ DOMAIN instances = Ids
    /\ mutCalls # {}
    /\ dnsRun.applied = "ok"

\* C8: a tick whose fetch failed has returned an error, c.dnsState is what it
\* was when the tick began and the provider was not called.
C8_FetchErrorAborts ==
    fetchErr =>
        /\ tickPc = "wait"
        /\ tickResult = "err"
        /\ dnsState = tickStartDns
        /\ dnsRun = NoRun

\* C8 witness: the fetch failed in a tick that began with a DNS state applied.
C8_Witness ==
    /\ fetchErr
    /\ variant = "kope"
    /\ DOMAIN dnsState # {}

\* C9: in a tick in which a call failed, every stored instance in an eligible
\* state whose fetched value differs from the desired one had its call,
\* configureDNS ran, and the tick returned an error only if the provider failed.
C9_PolicyErrorIsolated ==
    (TickDone /\ ~fetchErr /\ PolicyFailed # {}) =>
        /\ \A id \in DOMAIN instances :
              (/\ FetchedOf(id).State \in EligibleStates
               /\ BoolValue(FetchedOf(id).SourceDestCheck) # BoolValue(SourceDestCheck))
                 => id \in mutCalls
        /\ DOMAIN instances = FetchedIds
        /\ dns => dnsRun.ran
        /\ tickResult = "err" => dnsRun.applied = "fail"

\* C9 witness: one call failed, another one succeeded in the same tick, and
\* the tick returned nil after configureDNS.
C9_Witness ==
    /\ TickDone /\ ~fetchErr
    /\ PolicyFailed # {}
    /\ mutCalls \ PolicyFailed # {}
    /\ dnsRun.ran
    /\ tickResult = "nil"

\* C10: after a tick in which the provider failed, the tick has returned an
\* error, c.dnsState is what it was when the tick began, and configureDNS run
\* again on the same registry finds the same changes, which are not empty, and
\* calls the provider.
C10_ApplyErrorKeepsBaseline ==
    (TickDone /\ dnsRun.applied = "fail") =>
        /\ tickResult = "err"
        /\ dnsState = tickStartDns
        /\ \A r \in SecondRuns :
              /\ r.changes = dnsRun.changes
              /\ DOMAIN r.changes # {}
              /\ r.applied # "none"

\* C10 witness: the provider failed on changes to a state it had accepted in
\* an earlier tick.
C10_Witness ==
    /\ TickDone /\ dnsRun.applied = "fail"
    /\ DOMAIN dnsState # {}
    /\ \E k \in DOMAIN dnsRun.changes : k \in DOMAIN dnsState

\* A Stop call has ended, one way or another.
StopEnded == \E p \in Callers : stopPc[p] \notin {"idle", "locked"}

\* C11: after a runOnce that returned an error, as long as no Stop has
\* succeeded and the counter is below its bound, wait.Until calls runOnce
\* again, which starts with DescribeInstances.
C11_NextTickAfterError ==
    (tickResult = "err" /\ sequence < MaxSeq /\ ~shutdown)
        ~> (shutdown \/ (tickPc = "runOnce" /\ fetched = <<>>))

\* C11 witness: a tick that followed one whose provider call failed has
\* fetched the inventory again.
C11_Witness ==
    /\ prevTick = "apply"
    /\ tickPc = "loop"
    /\ fetched # <<>>

C13_RunBlocksUntilStop ==
    /\ [](runPc = "returned" => \E p \in Callers : stopPc[p] # "idle")
    /\ (runPc = "blocked" /\ StopEnded) ~> (runPc = "returned")

\* The names of D whose addresses differ from those of B in membership or in
\* number: the change set as the specification defines it.
ChangeSet(D, B) ==
    {n \in DOMAIN D :
        \/ Range(D[n]) # Range(Lookup(B, n))
        \/ Len(D[n]) # Len(Lookup(B, n))}

\* C14: configureDNS calls the provider exactly when the change set of the
\* gathered state against the last applied one is not empty, and then with
\* exactly the names of the change set and their gathered addresses; against
\* an empty last state the change set is every gathered name.
C14_ApplyExactlyChanges ==
    dnsRun.ran =>
        LET C == ChangeSet(dnsRun.desired, dnsRun.before)
        IN  /\ (dnsRun.applied # "none") <=> (C # {})
            /\ dnsRun.applied # "none" =>
                  /\ DOMAIN dnsRun.changes = C
                  /\ \A n \in C : SameAddresses(dnsRun.changes[n], dnsRun.desired[n])
            /\ DOMAIN dnsRun.before = {} => C = DOMAIN dnsRun.desired

\* C14 witness: the provider was called with one name while the gathered
\* state holds another one, which had not changed.
C14_Witness ==
    /\ dnsRun.applied # "none"
    /\ DOMAIN dnsRun.changes # {}
    /\ DOMAIN dnsRun.desired \ DOMAIN dnsRun.changes # {}

\* C15: after the provider accepted the changes, c.dnsState holds exactly the
\* names of the gathered state, each with the gathered addresses.
C15_BaselineIsSnapshot ==
    (TickDone /\ dnsRun.applied = "ok") =>
        /\ DOMAIN dnsState = DOMAIN dnsRun.desired
        /\ \A n \in DOMAIN dnsState : SameAddresses(dnsState[n], dnsRun.desired[n])

\* C15 witness: the provider accepted a change set that left out a name of
\* the gathered state, and c.dnsState holds that name.
C15_Witness ==
    /\ TickDone /\ dnsRun.applied = "ok"
    /\ \E n \in DOMAIN dnsRun.desired \ DOMAIN dnsRun.changes : n \in DOMAIN dnsState

\* The addresses the instances of the registry contribute to the name n.
Contributed(n) ==
    {instances[id].status.PrivateIpAddress :
        id \in {i \in DOMAIN instances :
                  /\ TagNameKubernetesDnsInternal \in DOMAIN instances[i].status.Tags
                  /\ instances[i].status.Tags[TagNameKubernetesDnsInternal] = n
                  /\ instances[i].status.PrivateIpAddress # EmptyString}}
    \cup
    {instances[id].status.PublicIpAddress :
        id \in {i \in DOMAIN instances :
                  /\ TagNameKubernetesDnsPublic \in DOMAIN instances[i].status.Tags
                  /\ instances[i].status.Tags[TagNameKubernetesDnsPublic] = n
                  /\ instances[i].status.PublicIpAddress # EmptyString}}

\* C16: the state configureDNS gathers has exactly the names some instance of
\* the registry contributes an address to, each with exactly the contributed
\* addresses, once each; an evicted instance contributes none.
C16_SnapshotFromRegistry ==
    (TickDone /\ dnsRun.ran) =>
        /\ DOMAIN dnsRun.desired = {n \in Names : Contributed(n) # {}}
        /\ \A n \in DOMAIN dnsRun.desired :
              /\ Range(dnsRun.desired[n]) = Contributed(n)
              /\ Len(dnsRun.desired[n]) = Cardinality(Contributed(n))
        /\ \A id \in evicted, n \in DOMAIN dnsRun.desired :
              Range(dnsRun.desired[n]) \cap {PrivateIp(id), PublicIp(id)} = {}

\* C16 witness: one instance was evicted and the other, which is stopped,
\* gave its private and its public address to the same name.
C16_Witness ==
    /\ TickDone /\ dnsRun.ran
    /\ evicted # {}
    /\ \E id \in DOMAIN instances, n \in DOMAIN dnsRun.desired :
          /\ instances[id].status.State = "stopped"
          /\ Range(dnsRun.desired[n]) = {PrivateIp(id), PublicIp(id)}

\* The steps of a tick: the upsert loop has run, an entry is evicted, a call
\* is issued, configureDNS runs.
UpsertStep == tickPc = "runOnce" /\ tickPc' # "runOnce"
EvictStep == evicted' # evicted /\ evicted' # {}
CallStep == mutCalls' # mutCalls /\ mutCalls' # {}
DnsStep == dnsRun'.ran /\ ~dnsRun.ran

\* C17 as stated: within a tick every upsert comes before any eviction, every
\* eviction before any call, and every call before configureDNS.
C17_PhasesStrictlyOrdered ==
    [][/\ UpsertStep => (evicted = {} /\ mutCalls = {} /\ ~dnsRun.ran)
       /\ EvictStep => (mutCalls = {} /\ ~dnsRun.ran)
       /\ CallStep => ~dnsRun.ran]_vars

\* C17 amended: within a tick every upsert comes before any eviction and any
\* call, and evictions and calls come before configureDNS; evictions and
\* calls share one pass over the registry, in which an entry is evicted or
\* gets its call, never both, and a call is only issued for an entry stamped
\* in this tick.
C17_PhasesOrderedPerEntry ==
    [][/\ UpsertStep => (evicted = {} /\ mutCalls = {} /\ ~dnsRun.ran)
       /\ EvictStep => (~dnsRun.ran /\ (evicted' \ evicted) \cap mutCalls = {})
       /\ CallStep =>
             /\ ~dnsRun.ran
             /\ \A id \in mutCalls' \ mutCalls :
                   /\ id \notin evicted
                   /\ id \in DOMAIN instances'
                   /\ instances[id].sequence = sequence]_vars

\* C17 witness: a tick evicted an entry, issued a call for another and ran
\* configureDNS.
C17_Witness ==
    /\ TickDone
    /\ evicted # {}
    /\ mutCalls # {}
    /\ dnsRun.ran

\* C18: the step of a tick that fetches the inventory, whether the fetch
\* succeeds or not, adds one to c.sequence; no other step changes it.
C18_CounterFirst ==
    [][IF UpsertStep THEN sequence' = sequence + 1 ELSE sequence' = sequence]_vars

\* C19: no entry of the registry is stamped with more than c.sequence, and
\* after a tick that went through its eviction loop every entry is stamped
\* with c.sequence.
C19_GenerationBound ==
    /\ \A id \in DOMAIN instances : instances[id].sequence <= sequence
    /\ (TickDone /\ ~fetchErr) =>
          \A id \in DOMAIN instances : instances[id].sequence = sequence

\* C19 witness: after a tick whose fetch failed, a tick evicted an entry that
\* was behind and kept another.
C19_Witness ==
    /\ TickDone /\ ~fetchErr
    /\ prevTick = "fetch"
    /\ evicted # {}
    /\ DOMAIN instances # {}

\* The fetch reported id in an eligible state with a value other than the
\* configured one.
NeedsCall(id) ==
    /\ SourceDestCheck # {}
    /\ FetchedOf(id).State \in EligibleStates
    /\ BoolValue(FetchedOf(id).SourceDestCheck) # BoolValue(SourceDestCheck)

\* C20: after a tick, every instance the fetch reported in an eligible state
\* with a value other than the configured one had a call; its stored value is
\* the configured one when the call succeeded and the fetched one when it
\* failed; and a step issues a call for one entry, which the range then
\* leaves behind.
C20_OneCallThenObserved ==
    /\ []((TickDone /\ ~fetchErr) =>
            \A id \in DOMAIN instances :
               NeedsCall(id) =>
                  /\ id \in mutCalls
                  /\ instances[id].status.SourceDestCheck =
                        IF id \in PolicyFailed THEN FetchedOf(id).SourceDestCheck
                        ELSE SourceDestCheck)
    /\ [][CallStep =>
            /\ Cardinality(mutCalls' \ mutCalls) = 1
            /\ \A id \in mutCalls' \ mutCalls : id \in todo /\ id \notin todo']_vars

\* C20 witness: in one tick a call succeeded and the entry holds the
\* configured value, and another call failed and the entry holds the fetched
\* value.
C20_Witness ==
    /\ TickDone /\ ~fetchErr
    /\ \E a \in mutCalls \ PolicyFailed, b \in PolicyFailed :
          /\ NeedsCall(a) /\ NeedsCall(b)
          /\ instances[a].status.SourceDestCheck = SourceDestCheck
          /\ instances[b].status.SourceDestCheck # SourceDestCheck

\* C21: in a tick whose fetch succeeded, an instance whose call failed in the
\* tick before and which the fetch still reports in an eligible state with a
\* value other than the configured one has its call again; when that call
\* succeeds, EC2 and the registry hold the configured value.
C21_FailedCallRetried ==
    (TickDone /\ ~fetchErr) =>
        \A id \in prevFailed \cap FetchedIds :
           NeedsCall(id) =>
              /\ id \in mutCalls
              /\ id \notin PolicyFailed =>
                    /\ cloudSDC[id] = BoolValue(SourceDestCheck)
                    /\ instances[id].status.SourceDestCheck = SourceDestCheck

\* C21 witness: the call for an instance failed in one tick and succeeded in
\* the next, while the call for another instance failed there.
C21_Witness ==
    /\ TickDone /\ ~fetchErr
    /\ PolicyFailed # {}
    /\ \E id \in (prevFailed \cap mutCalls) \ PolicyFailed :
          /\ NeedsCall(id)
          /\ cloudSDC[id] = BoolValue(SourceDestCheck)

\* C22: what configureDNS sends to the provider holds only names of the
\* gathered state, each with at least one address; a name of the last state
\* that is gone is not sent, and the zone keeps its record as it was.
C22_NeverRetracts ==
    (dnsRun.ran /\ dnsRun.applied # "none") =>
        /\ DOMAIN dnsRun.changes \subseteq DOMAIN dnsRun.desired
        /\ \A n \in DOMAIN dnsRun.changes : dnsRun.changes[n] # <<>>
        /\ \A n \in DOMAIN dnsRun.before \ DOMAIN dnsRun.desired :
              /\ n \notin DOMAIN dnsRun.changes
              /\ n \in DOMAIN zone
              /\ zone[n] = dnsRun.before[n]

\* C22 witness: the provider accepted changes while the last state held a
\* name that no instance contributes to any more.
C22_Witness ==
    /\ dnsRun.applied = "ok"
    /\ DOMAIN dnsRun.before \ DOMAIN dnsRun.desired # {}

\* C23: every name of c.dnsState is in the zone with the same addresses, and
\* a gathered name that configureDNS left out of the changes is in the zone
\* with the gathered addresses.
C23_BaselineIsZone ==
    /\ \A n \in DOMAIN dnsState : n \in DOMAIN zone /\ zone[n] = dnsState[n]
    /\ (TickDone /\ dnsRun.ran) =>
          \A n \in DOMAIN dnsRun.desired \ DOMAIN dnsRun.changes :
             /\ n \in DOMAIN zone
             /\ SameAddresses(zone[n], dnsRun.desired[n])

\* C23 witness: the provider accepted a change to one name, and another name,
\* gathered in another order than the zone holds it in, was left out.
C23_Witness ==
    /\ TickDone /\ dnsRun.applied = "ok"
    /\ \E n \in DOMAIN dnsRun.desired \ DOMAIN dnsRun.changes :
          /\ dnsRun.desired[n] # zone[n]
          /\ SameAddresses(zone[n], dnsRun.desired[n])

\* C24: the step of a tick in which the fetch fails leaves c.instances as it
\* was, and a tick whose fetch failed has evicted nothing and issued no call.
C24_FetchErrorKeepsRegistry ==
    /\ [][(UpsertStep /\ fetchErr') => instances' = instances]_vars
    /\ [](fetchErr => (evicted = {} /\ mutCalls = {}))

====
